---- MODULE Spec2Model ----
(***************************************************************************)
(* Model of src/src/routes/demo/start.chatbot.tsx: the income-tax chatbot  *)
(* route component.  The file holds three versions of RouteComponent (the  *)
(* first at lines 40-261, the second at 284-473, the third at 516-736);    *)
(* the variable `variant` says which one is mounted.                       *)
(*                                                                         *)
(* Text is modelled as a sequence of one-character strings, so that        *)
(* toLowerCase, includes, trim, the details regular expression and the     *)
(* number formatting are computed character by character as the            *)
(* JavaScript built-ins compute them.  Numbers are IEEE-754 doubles,       *)
(* modelled exactly as mant * 2^exp with a 53-bit mantissa held in         *)
(* 15-bit limbs (TLC integers are 32 bits wide).                           *)
(***************************************************************************)
EXTENDS Integers, Sequences, FiniteSets, TLC

VARIABLES
    variant,    \* which of the three versions of RouteComponent is mounted
    mounted,    \* the greeting effect has run
    messages,   \* useState<Message[]>
    input,      \* useState('') : the text of the text box
    state,      \* useState<ChatState>
    calls,      \* the number of calls of handleBotResponse so far
    last        \* the handler that ran last and what it read and returned

vars == <<variant, mounted, messages, input, state, calls, last>>

-----------------------------------------------------------------------------
(* Text *)

\* a string literal as a sequence of characters
Chars(s) == [i \in 1..Len(s) |-> SubSeq(s, i, i)]

UpperCaseLetters == Chars("ABCDEFGHIJKLMNOPQRSTUVWXYZ")
LowerCaseLetters == Chars("abcdefghijklmnopqrstuvwxyz")
Digits == Chars("0123456789")

Range(f) == {f[i] : i \in DOMAIN f}

\* white space as String.prototype.trim and the regular expression's \s see it
WhiteSpace == {" ", "\t", "\n", "\r", "\f"}

\* line terminators, which the regular expression's . does not match
LineTerminators == {"\n", "\r"}

DigitChars == Range(Digits)
UpperChars == Range(UpperCaseLetters)

\* \w : [A-Za-z0-9_]
WordChars == UpperChars \cup Range(LowerCaseLetters) \cup DigitChars \cup {"_"}

\* the lower-case letter of each upper-case letter
LowerOf == [c \in UpperChars |-> LowerCaseLetters[CHOOSE k \in 1..26 : UpperCaseLetters[k] = c]]

LowerChar(c) == IF c \in UpperChars THEN LowerOf[c] ELSE c

\* String.prototype.toLowerCase
toLowerCase(s) == [i \in 1..Len(s) |-> LowerChar(s[i])]

\* String.prototype.includes
includes(s, sub) ==
    \E i \in 0..(Len(s) - Len(sub)) : SubSeq(s, i + 1, i + Len(sub)) = sub

RECURSIVE TrimStart(_)
TrimStart(s) ==
    IF s # <<>> /\ Head(s) \in WhiteSpace THEN TrimStart(Tail(s)) ELSE s

RECURSIVE TrimEnd(_)
TrimEnd(s) ==
    IF s # <<>> /\ s[Len(s)] \in WhiteSpace THEN TrimEnd(SubSeq(s, 1, Len(s) - 1)) ELSE s

\* a submission that forgets to trim
TrimNothing(s) == s

\* String.prototype.trim
trim(s) == TrimEnd(TrimStart(s))

-----------------------------------------------------------------------------
\* The details regular expression (line 114-115)
\*   /hours:\s*(\d+\.?\d*).*rate:\s*(\d+\.?\d*).*state:\s*(\w+).*county:\s*(\w+).*city:\s*(\w+)/i
\* as a sequence of items, matched by backtracking with greedy quantifiers,
\* leftmost start first, as String.prototype.match does.

Lit(s)        == [t |-> "lit", s |-> Chars(s), cls |-> "", min |-> 0, max |-> 0, g |-> 0]
Rep(c, lo, hi) == [t |-> "rep", s |-> <<>>, cls |-> c, min |-> lo, max |-> hi, g |-> 0]
Open(n)       == [t |-> "open", s |-> <<>>, cls |-> "", min |-> 0, max |-> 0, g |-> n]
Close(n)      == [t |-> "close", s |-> <<>>, cls |-> "", min |-> 0, max |-> 0, g |-> n]

\* an upper bound on repetitions that no utterance reaches
Unbounded == 1000000

Number(n) == <<Open(n), Rep("digit", 1, Unbounded), Rep("point", 0, 1), Rep("digit", 0, Unbounded), Close(n)>>
Word(n)   == <<Open(n), Rep("word", 1, Unbounded), Close(n)>>
Spaces    == <<Rep("space", 0, Unbounded)>>
Anything  == <<Rep("any", 0, Unbounded)>>

\* a regular expression that asks for the city before the county
RegexCityFirst ==
    <<Lit("hours:")>> \o Spaces \o Number(1) \o Anything \o
    <<Lit("rate:")>> \o Spaces \o Number(2) \o Anything \o
    <<Lit("state:")>> \o Spaces \o Word(3) \o Anything \o
    <<Lit("city:")>> \o Spaces \o Word(5) \o Anything \o
    <<Lit("county:")>> \o Spaces \o Word(4)

regex ==
    <<Lit("hours:")>> \o Spaces \o Number(1) \o Anything \o
    <<Lit("rate:")>> \o Spaces \o Number(2) \o Anything \o
    <<Lit("state:")>> \o Spaces \o Word(3) \o Anything \o
    <<Lit("county:")>> \o Spaces \o Word(4) \o Anything \o
    <<Lit("city:")>> \o Spaces \o Word(5)

InClass(cls, c) ==
    CASE cls = "digit" -> c \in DigitChars
      [] cls = "point" -> c = "."
      [] cls = "word"  -> c \in WordChars
      [] cls = "space" -> c \in WhiteSpace
      [] cls = "any"   -> c \notin LineTerminators

Positions(s) == 1..(Len(s) + 1)

Max(S) == CHOOSE x \in S : \A y \in S : y <= x
Min(S) == CHOOSE x \in S : \A y \in S : x <= y

\* the positions of s at which a run of characters of class cls stops: the
\* characters that are not of the class, and the end of s
Stops(s, cls) ==
    {j : j \in {i \in 1..Len(s) : ~InClass(cls, s[i])}} \cup {Len(s) + 1}

\* the number of characters of class cls at the front of s[i..], at most hi
Run(s, cls, stops, i, hi) ==
    IF i > Len(s) \/ ~InClass(cls, s[i]) THEN 0
    ELSE LET n == Min({b \in stops : b > i}) - i IN IF n < hi THEN n ELSE hi

\* some position of the set next lies in lo..hi
Reaches(next, lo, hi) ==
    IF Cardinality(next) <= hi - lo
    THEN \E j \in next : lo <= j /\ j <= hi
    ELSE \E j \in lo..hi : j \in next

\* the literal with the i flag: letters compare without case
LitAt(s, i, lit) ==
    /\ i + Len(lit) - 1 <= Len(s)
    /\ \A j \in 1..Len(lit) : LowerChar(s[i + j - 1]) = LowerChar(lit[j])

\* Backtracking explores, at each repetition, the longest count first and
\* succeeds with the first choice from which the rest of the expression can
\* match.  Whether the rest can match depends only on the position (the
\* expression has no back-references), so the search is computed in two
\* passes: Feasible gives, for every item p, the positions from which items
\* p.. can match; Walk then makes the greedy choices the backtracking search
\* ends with.

\* the positions from which item it matches and leaves a position of next
Before(it, s, next) ==
    LET stops == Stops(s, it.cls)
        ok(i) ==
          CASE it.t = "lit" -> LitAt(s, i, it.s) /\ i + Len(it.s) \in next
            [] it.t = "rep" -> Reaches(next, i + it.min, i + Run(s, it.cls, stops, i, it.max))
    IN  IF it.t \in {"open", "close"} THEN next
        ELSE {j : j \in {i \in Positions(s) : ok(i)}}

RECURSIVE Feasible(_, _, _)
\* acc = <<F_p, ..., F_end>>, F_q the set of positions from which items q..
\* of re match in s; the result is <<F_1, ..., F_end>>
Feasible(re, s, acc) ==
    IF Len(acc) > Len(re) THEN acc
    ELSE Feasible(re, s, <<Before(re[Len(re) - Len(acc) + 1], s, acc[1])>> \o acc)

\* the characters item it takes at position i when the rest must match from
\* a position of next: a repetition takes the most it can
Taken(it, s, i, next) ==
    CASE it.t = "lit" -> Len(it.s)
      [] it.t = "rep" -> LET n == Run(s, it.cls, Stops(s, it.cls), i, it.max)
                         IN  Max({j \in next : i + it.min <= j /\ j <= i + n}) - i
      [] OTHER        -> 0

RECURSIVE Walk(_, _, _, _)
\* path[p] is the position at which item p starts; path[Len(re) + 1] the end
Walk(re, s, F, path) ==
    IF Len(path) > Len(re) THEN path
    ELSE LET p == Len(path)
             i == path[p]
         IN  Walk(re, s, F, Append(path, i + Taken(re[p], s, i, F[p + 1])))

\* the item of re that opens (closes) group n
ItemOf(re, kind, n) == CHOOSE p \in 1..Len(re) : re[p].t = kind /\ re[p].g = n

NumGroups(re) == Cardinality({p \in 1..Len(re) : re[p].t = "open"})

\* String.prototype.match without the g flag: null (here <<>>) or the groups
\* match[1] .. match[5] of the leftmost match
Captures(s, re, path) ==
    [n \in 1..NumGroups(re) |->
        SubSeq(s, path[ItemOf(re, "open", n)], path[ItemOf(re, "close", n)] - 1)]

\* F[p] being the positions from which items p.. of re match
Matched(s, re, F) ==
    IF F[1] = {} THEN <<>> ELSE Captures(s, re, Walk(re, s, F, <<Min(F[1])>>))

match(s, re) == Matched(s, re, Feasible(re, s, <<Positions(s)>>))

-----------------------------------------------------------------------------
(* Numbers.  A JavaScript number is an IEEE-754 double.  Natural numbers   *)
(* of any size are little-endian sequences of limbs in base 2^15 (<<>> is  *)
(* zero); a non-negative double is a record [m, e] of value m * 2^e with   *)
(* m < 2^53 + 1.  Every operation below computes the exact result and      *)
(* rounds it to 53 significant bits, ties to even, as the hardware does.   *)
(* Infinities, NaN, subnormals and negative numbers do not arise from the  *)
(* digit strings the regular expression captures within the model's        *)
(* bounds.                                                                 *)

Base == 32768

Pow2 == <<1, 2, 4, 8, 16, 32, 64, 128, 256, 512, 1024, 2048, 4096, 8192, 16384>>

RECURSIVE NNorm(_)
\* without high zero limbs
NNorm(a) == IF a # <<>> /\ a[Len(a)] = 0 THEN NNorm(SubSeq(a, 1, Len(a) - 1)) ELSE a

NFromInt(n) == NNorm(<<n % Base, (n \div Base) % Base, n \div (Base * Base)>>)

Limb(a, i) == IF i <= Len(a) THEN a[i] ELSE 0

RECURSIVE NAddFrom(_, _, _, _)
NAddFrom(a, b, i, carry) ==
    IF i > Len(a) /\ i > Len(b)
    THEN IF carry = 0 THEN <<>> ELSE <<carry>>
    ELSE LET t == Limb(a, i) + Limb(b, i) + carry
         IN  <<t % Base>> \o NAddFrom(a, b, i + 1, t \div Base)

NAdd(a, b) == NAddFrom(a, b, 1, 0)

RECURSIVE NSubFrom(_, _, _, _)
NSubFrom(a, b, i, borrow) ==
    IF i > Len(a) THEN <<>>
    ELSE LET t == a[i] - Limb(b, i) - borrow
         IN  <<t % Base>> \o NSubFrom(a, b, i + 1, IF t < 0 THEN 1 ELSE 0)

\* a - b for a >= b
NSub(a, b) == NNorm(NSubFrom(a, b, 1, 0))

RECURSIVE NMulSmallFrom(_, _, _, _)
NMulSmallFrom(a, d, i, carry) ==
    IF i > Len(a)
    THEN IF carry = 0 THEN <<>> ELSE <<carry>>
    ELSE LET t == a[i] * d + carry
         IN  <<t % Base>> \o NMulSmallFrom(a, d, i + 1, t \div Base)

\* a * d for 0 <= d < Base
NMulSmall(a, d) == IF d = 0 THEN <<>> ELSE NMulSmallFrom(a, d, 1, 0)

RECURSIVE NMulFrom(_, _, _)
NMulFrom(a, b, j) ==
    IF j > Len(b) THEN <<>>
    ELSE NAdd(NMulSmall(a, b[j]), IF a = <<>> THEN <<>> ELSE <<0>> \o NMulFrom(a, b, j + 1))

NMul(a, b) == NNorm(NMulFrom(a, b, 1))

RECURSIVE NDivSmallFrom(_, _, _, _)
\* <<quotient limbs i..1 (high first), remainder>> of a by d, from limb i down
NDivSmallFrom(a, d, i, rem) ==
    IF i = 0 THEN [q |-> <<>>, r |-> rem]
    ELSE LET t    == rem * Base + a[i]
             rest == NDivSmallFrom(a, d, i - 1, t % d)
         IN  [q |-> Append(rest.q, t \div d), r |-> rest.r]

\* quotient and remainder of a by d for 0 < d < Base
NDivSmall(a, d) ==
    LET x == NDivSmallFrom(a, d, Len(a), 0) IN [q |-> NNorm(x.q), r |-> x.r]

RECURSIVE NLess(_, _)
NLess(a, b) ==
    IF Len(a) # Len(b) THEN Len(a) < Len(b)
    ELSE IF a = <<>> THEN FALSE
    ELSE IF a[Len(a)] # b[Len(b)] THEN a[Len(a)] < b[Len(b)]
    ELSE NLess(SubSeq(a, 1, Len(a) - 1), SubSeq(b, 1, Len(b) - 1))

\* the number of bits of 0 < x < Base
SmallBits(x) == CHOOSE k \in 1..15 : Pow2[k] <= x /\ (k = 15 \/ x < Pow2[k + 1])

BitLen(a) == IF a = <<>> THEN 0 ELSE 15 * (Len(a) - 1) + SmallBits(a[Len(a)])

\* a * 2^k
NShl(a, k) ==
    IF a = <<>> THEN <<>>
    ELSE [i \in 1..(k \div 15) |-> 0] \o NMulSmall(a, Pow2[(k % 15) + 1])

\* a \div 2^k
NShr(a, k) ==
    IF k \div 15 >= Len(a) THEN <<>>
    ELSE NDivSmall(SubSeq(a, (k \div 15) + 1, Len(a)), Pow2[(k % 15) + 1]).q

NOdd(a) == a # <<>> /\ a[1] % 2 = 1

One == <<1>>

\* whether a quotient q with remainder r rounds up, half being half a unit
RoundsUp(q, r, half) == NLess(half, r) \/ (r = half /\ NOdd(q))

\* n * 2^e without its low s bits, q being n \div 2^s
Rounded(n, e, s, q) ==
    [m |-> IF RoundsUp(q, NSub(n, NShl(q, s)), NShl(One, s - 1)) THEN NAdd(q, One) ELSE q,
     e |-> e + s]

\* the double nearest to n * 2^e, ties to the even mantissa
RoundToDouble(n, e) ==
    IF BitLen(n) <= 53 THEN [m |-> n, e |-> e]
    ELSE Rounded(n, e, BitLen(n) - 53, NShr(n, BitLen(n) - 53))

DoubleAdd(x, y) ==
    LET e == IF x.e < y.e THEN x.e ELSE y.e
    IN  RoundToDouble(NAdd(NShl(x.m, x.e - e), NShl(y.m, y.e - e)), e)

\* x - y for x >= y
DoubleSub(x, y) ==
    LET e == IF x.e < y.e THEN x.e ELSE y.e
    IN  RoundToDouble(NSub(NShl(x.m, x.e - e), NShl(y.m, y.e - e)), e)

DoubleMul(x, y) == RoundToDouble(NMul(x.m, y.m), x.e + y.e)

DigitValue(c) == (CHOOSE k \in 1..10 : Digits[k] = c) - 1

RECURSIVE NFromDigits(_)
\* the number a string of decimal digits denotes
NFromDigits(ds) ==
    IF ds = <<>> THEN <<>>
    ELSE NAdd(NMulSmall(NFromDigits(SubSeq(ds, 1, Len(ds) - 1)), 10),
              NFromInt(DigitValue(ds[Len(ds)])))

RECURSIVE NToDigits(_)
\* the decimal digits of n (none for zero)
NToDigits(n) ==
    IF n = <<>> THEN <<>>
    ELSE LET x == NDivSmall(n, 10) IN Append(NToDigits(x.q), Digits[x.r + 1])

RECURSIVE DivPow10(_, _)
\* n \div 10^f, and whether the division left a remainder
DivPow10(n, f) ==
    IF f = 0 THEN [q |-> n, sticky |-> FALSE]
    ELSE LET x    == NDivSmall(n, 10)
             rest == DivPow10(x.q, f - 1)
         IN  [q |-> rest.q, sticky |-> rest.sticky \/ x.r # 0]

\* the double nearest to (x.q + a fraction, nonzero iff x.sticky) / 2^s
Nearest(x, s) ==
    RoundToDouble(NAdd(NShl(x.q, 1), IF x.sticky THEN One ELSE <<>>), 0 - (s + 1))

\* the double nearest to d / 10^f
Scaled(d, f) ==
    IF f = 0 THEN RoundToDouble(d, 0)
    ELSE Nearest(DivPow10(NShl(d, 64 + 4 * f), f), 64 + 4 * f)

\* the double nearest to the decimal int.frac
Decimal(int, frac) == Scaled(NNorm(NFromDigits(int \o frac)), Len(frac))

\* parseFloat of a string of the form digits [. digits] (what groups 1 and 2
\* of the regular expression capture), and a numeric literal of that form:
\* the double nearest to the decimal value
parseFloat(str) ==
    LET dot == {i \in 1..Len(str) : str[i] = "."}
    IN  IF dot = {} THEN Decimal(str, <<>>)
        ELSE Decimal(SubSeq(str, 1, Min(dot) - 1), SubSeq(str, Min(dot) + 1, Len(str)))

\* floor(100 * x + 1/2)
Hundredths(x) ==
    IF x.e >= 0 THEN NShl(NMulSmall(x.m, 100), x.e)
    ELSE NShr(NAdd(NMulSmall(x.m, 200), NShl(One, 0 - x.e)), 1 - x.e)

\* at least three digits
Padded(ds) == IF Len(ds) < 3 THEN [i \in 1..(3 - Len(ds)) |-> "0"] \o ds ELSE ds

\* a point before the last two digits
TwoDecimals(p) == SubSeq(p, 1, Len(p) - 2) \o <<".">> \o SubSeq(p, Len(p) - 1, Len(p))

\* Number.prototype.toFixed(2) of x < 10^21: the integer n for which n / 100
\* is nearest to x, the larger one of two, written with two decimals
toFixed(x) == TwoDecimals(Padded(NToDigits(Hundredths(x))))

-----------------------------------------------------------------------------
(* The texts of the component *)

Greeting    == Chars("Hello, my name is Jacob. How can I help you?")
TaxPrompt   == Chars("Sure! Please include your information like so, \"hours: 40, rate: 35, state: NY, county: Kings, city: NYC\".")
Thanks      == Chars("Thanks, have a nice day!")
HelpPrompt  == Chars("I can help you calculate taxes. Please type \"please calculate my taxes\" to begin.")
RetryPrompt == Chars("Please include your information like so, \"hours: 40, rate: 35, state: NY, county: Kings, city: NYC\".")
OkayPrompt  == Chars("Okay! Let me know if you would like me to calculate taxes again.")

Variants == {1, 2, 3}

\* the white space that starts the lines of the estimate after the first:
\* the template literal of the second version is indented in the source
Indent(v) == IF v = 2 THEN Chars("            ") ELSE <<>>

federalRate == parseFloat(Chars("0.12"))
stateRate   == parseFloat(Chars("0.05"))

\* a total that forgets the state rate
TotalRateFederalOnly == federalRate

totalRate   == DoubleAdd(federalRate, stateRate)

\* the template literal of the estimate
Estimate(v, cityName, countyName, stateName, grossPay, taxes, netPay) ==
    Chars("Estimated taxes for ") \o cityName \o Chars(", ") \o countyName
        \o Chars(" County, ") \o stateName \o Chars(":\n")
        \o Indent(v) \o Chars("Gross Pay: $") \o toFixed(grossPay) \o Chars("\n")
        \o Indent(v) \o Chars("Taxes: $") \o toFixed(taxes) \o Chars("\n")
        \o Indent(v) \o Chars("Net Pay: $") \o toFixed(netPay) \o Chars("\n")
        \o Indent(v) \o Chars("(Note: this is an estimate.)\n")
        \o Chars("\n")
        \o Indent(v) \o Chars("Would you like help with anything else?")

-----------------------------------------------------------------------------
(* The engine *)

\* awaiting_tax_request that asks for the details whatever the user says
AwaitingTaxRequestEager(lowerInput, st) ==
    IF includes(lowerInput, Chars("no")) /\ ~includes(lowerInput, Chars("tax"))
    THEN [state |-> "awaiting_anything_else", reply |-> Thanks]
    ELSE [state |-> "awaiting_tax_details", reply |-> TaxPrompt]

\* awaiting_tax_request that looks for "no" before "tax"
AwaitingTaxRequestNoFirst(lowerInput, st) ==
    IF includes(lowerInput, Chars("no"))
    THEN [state |-> "awaiting_anything_else", reply |-> Thanks]
    ELSE IF includes(lowerInput, Chars("tax"))
    THEN [state |-> "awaiting_tax_details", reply |-> TaxPrompt]
    ELSE [state |-> st, reply |-> HelpPrompt]

\* awaiting_tax_request that sets no state when the user says "no"
AwaitingTaxRequestNoStays(lowerInput, st) ==
    IF includes(lowerInput, Chars("tax"))
    THEN [state |-> "awaiting_tax_details", reply |-> TaxPrompt]
    ELSE IF includes(lowerInput, Chars("no"))
    THEN [state |-> st, reply |-> Thanks]
    ELSE [state |-> st, reply |-> HelpPrompt]

\* awaiting_tax_request that falls through to the default case
AwaitingTaxRequestFallsThrough(lowerInput, st) ==
    IF includes(lowerInput, Chars("tax"))
    THEN [state |-> "awaiting_tax_details", reply |-> TaxPrompt]
    ELSE IF includes(lowerInput, Chars("no"))
    THEN [state |-> "awaiting_anything_else", reply |-> Thanks]
    ELSE [state |-> "awaiting_anything_else", reply |-> OkayPrompt]

\* case 'awaiting_tax_request'
AwaitingTaxRequest(lowerInput, st) ==
    IF includes(lowerInput, Chars("tax"))
    THEN [state |-> "awaiting_tax_details", reply |-> TaxPrompt]
    ELSE IF includes(lowerInput, Chars("no"))
    THEN [state |-> "awaiting_anything_else", reply |-> Thanks]
    ELSE [state |-> st, reply |-> HelpPrompt]

\* lines 129-140, given the gross pay and the taxes
Net(v, cityName, countyName, stateName, grossPay, taxes) ==
    [state |-> "awaiting_anything_else",
     reply |-> Estimate(v, cityName, countyName, stateName, grossPay, taxes,
                        DoubleSub(grossPay, taxes))]

\* lines 128-140, given the gross pay
Taxed(v, cityName, countyName, stateName, grossPay) ==
    Net(v, cityName, countyName, stateName, grossPay, DoubleMul(grossPay, totalRate))

\* lines 118-140, given the parsed hours and rate and the names
Calculate(v, hours, rate, stateName, countyName, cityName) ==
    Taxed(v, cityName, countyName, stateName, DoubleMul(hours, rate))

\* lines 117-142, given the result of userInput.match(regex)
Details(v, m, st) ==
    IF m # <<>>
    THEN Calculate(v, parseFloat(m[1]), parseFloat(m[2]), m[3], m[4], m[5])
    ELSE [state |-> st, reply |-> RetryPrompt]

\* awaiting_tax_details that sets no state after the estimate
AwaitingTaxDetailsStays(v, userInput, st) ==
    [state |-> st, reply |-> Details(v, match(userInput, regex), st).reply]

\* awaiting_tax_details that starts over when the details do not match
AwaitingTaxDetailsStartsOver(v, userInput, st) ==
    IF match(userInput, regex) # <<>>
    THEN Details(v, match(userInput, regex), st)
    ELSE [state |-> "awaiting_tax_request", reply |-> HelpPrompt]

\* awaiting_tax_details that gives up after a failed attempt
AwaitingTaxDetailsGivesUp(v, userInput, st) ==
    IF match(userInput, regex) # <<>>
    THEN Details(v, match(userInput, regex), st)
    ELSE [state |-> "awaiting_anything_else", reply |-> RetryPrompt]

\* case 'awaiting_tax_details'
AwaitingTaxDetails(v, userInput, st) == Details(v, match(userInput, regex), st)

\* every version going back to idle after "no"
AfterNoIdles(v) == "idle"

\* every version resetting after "no"
AfterNoResets(v) == "awaiting_tax_request"

\* the state the versions set when the user says "no" in
\* awaiting_anything_else: the second version sets awaiting_anything_else
\* (line 371), the first and the third awaiting_tax_request (lines 146, 622)
AfterNo(v) == IF v = 2 THEN "awaiting_anything_else" ELSE "awaiting_tax_request"

\* awaiting_anything_else without the "tax" branch
AwaitingAnythingElseNoTax(v, lowerInput) ==
    IF includes(lowerInput, Chars("no"))
    THEN [state |-> AfterNo(v), reply |-> Thanks]
    ELSE [state |-> "awaiting_tax_request", reply |-> OkayPrompt]

\* awaiting_anything_else that sets no state when neither word is there
AwaitingAnythingElseStays(v, lowerInput) ==
    IF includes(lowerInput, Chars("no"))
    THEN [state |-> AfterNo(v), reply |-> Thanks]
    ELSE IF includes(lowerInput, Chars("tax"))
    THEN [state |-> "awaiting_tax_details", reply |-> TaxPrompt]
    ELSE [state |-> "awaiting_anything_else", reply |-> OkayPrompt]

\* case 'awaiting_anything_else'
AwaitingAnythingElse(v, lowerInput) ==
    IF includes(lowerInput, Chars("no"))
    THEN [state |-> AfterNo(v), reply |-> Thanks]
    ELSE IF includes(lowerInput, Chars("tax"))
    THEN [state |-> "awaiting_tax_details", reply |-> TaxPrompt]
    ELSE [state |-> "awaiting_tax_request", reply |-> OkayPrompt]

\* a handleBotResponse whose default case sets no state
handleBotResponseNoDefaultState(v, st, userInput) ==
    CASE st = "awaiting_tax_request"   -> AwaitingTaxRequest(toLowerCase(userInput), st)
      [] st = "awaiting_tax_details"   -> AwaitingTaxDetails(v, userInput, st)
      [] st = "awaiting_anything_else" -> AwaitingAnythingElse(v, toLowerCase(userInput))
      [] OTHER -> [state |-> st, reply |-> OkayPrompt]

\* handleBotResponse of version v called in state st: the text it returns
\* and the state it sets (st where it calls no setState)
\* an engine whose third version greets again after the estimate
handleBotResponseThirdDiffers(v, st, userInput) ==
    LET lowerInput == toLowerCase(userInput) IN
    CASE st = "awaiting_tax_request"   -> AwaitingTaxRequest(lowerInput, st)
      [] st = "awaiting_tax_details"   ->
            IF v = 3 /\ match(userInput, regex) # <<>>
            THEN [state |-> "awaiting_tax_request", reply |-> AwaitingTaxDetails(v, userInput, st).reply]
            ELSE AwaitingTaxDetails(v, userInput, st)
      [] st = "awaiting_anything_else" -> AwaitingAnythingElse(v, lowerInput)
      [] OTHER -> [state |-> "awaiting_anything_else", reply |-> OkayPrompt]

handleBotResponse(v, st, userInput) ==
    LET lowerInput == toLowerCase(userInput) IN
    CASE st = "awaiting_tax_request"   -> AwaitingTaxRequest(lowerInput, st)
      [] st = "awaiting_tax_details"   -> AwaitingTaxDetails(v, userInput, st)
      [] st = "awaiting_anything_else" -> AwaitingAnythingElse(v, lowerInput)
      [] OTHER -> [state |-> "awaiting_anything_else", reply |-> OkayPrompt]

-----------------------------------------------------------------------------
(* The component *)

\* the accepted submissions of a run are bounded
MaxSends == 2

\* what the user may type into the text box
Utterances == {
    <<>>,
    Chars(" \t"),
    Chars("I need tax help"),
    Chars("No TAXES"),
    Chars("no thanks"),
    Chars("I don't have that info"),
    Chars("hours: 40, rate: 35, state: NY, county: Kings, city: NYC"),
    Chars("Hours:100000000 RATE:100000000 State:ca County:x City:y_1"),
    Chars("no tax, hours:168 rate:7. state:a county:b city:c!"),
    Chars("hours: 37.5, rate: 20.10, state: WA, county: King, city: Kent"),
    Chars("hours: 40, rate: 35, state: NY, city: NYC, county: Kings") }

Keys == {"Enter", "a"}

Message(sender, text) == [sender |-> sender, text |-> text]

\* the handler that ran last, with the text (of the box, or the one typed) and
\* the state it read and, when it called handleBotResponse, the reply it got
Event(op, in, st, called, reply) ==
    [op |-> op, input |-> in, state |-> st, called |-> called, reply |-> reply]

\* useState (lines 42-46): the first render, before the effects have run
Init ==
    /\ variant \in Variants
    /\ mounted = FALSE
    /\ messages = <<>>
    /\ input = <<>>
    /\ state = "idle"
    /\ calls = 0
    /\ last = Event("render", <<>>, "idle", FALSE, <<>>)

\* a greeting effect that forgets setState
GreetKeepsState ==
    /\ ~mounted
    /\ mounted' = TRUE
    /\ messages' = <<Message("bot", Greeting)>>
    /\ last' = Event("useEffect", input, state, FALSE, <<>>)
    /\ UNCHANGED <<variant, input, state, calls>>

\* the greeting effect (useEffect with no dependencies, lines 54-61)
Greet ==
    /\ ~mounted
    /\ mounted' = TRUE
    /\ messages' = <<Message("bot", Greeting)>>
    /\ state' = "awaiting_tax_request"
    /\ last' = Event("useEffect", input, state, FALSE, <<>>)
    /\ UNCHANGED <<variant, input, calls>>

\* an onChange that starts the conversation over
OnChangeStartsOver(value) ==
    /\ mounted
    /\ input' = value
    /\ state' = "awaiting_tax_request"
    /\ last' = Event("onChange", value, state, FALSE, <<>>)
    /\ UNCHANGED <<variant, mounted, messages, calls>>

\* onChange of the text box (line 231).  React runs the pending effects of
\* a render before it renders again, so the box shows typed text only after
\* the greeting effect has run.
OnChange(value) ==
    /\ mounted
    /\ input' = value
    /\ last' = Event("onChange", value, state, FALSE, <<>>)
    /\ UNCHANGED <<variant, mounted, messages, state, calls>>

\* a handleSend that puts the new messages in front
RespondInFront(r) ==
    /\ messages' = <<Message("user", input), Message("bot", r.reply)>> \o messages
    /\ state' = r.state
    /\ last' = Event("handleSend", input, state, TRUE, r.reply)

\* a handleSend that appends the reply only
RespondReplyOnly(r) ==
    /\ messages' = messages \o <<Message("bot", r.reply)>>
    /\ state' = r.state
    /\ last' = Event("handleSend", input, state, TRUE, r.reply)

\* lines 76-80 of handleSend, r being the new state and the text returned by
\* handleBotResponse
Respond(r) ==
    /\ messages' = messages \o <<Message("user", input), Message("bot", r.reply)>>
    /\ state' = r.state
    /\ last' = Event("handleSend", input, state, TRUE, r.reply)

\* handleSend (lines 73-83) in a run of at most max accepted submissions
SendWithin(max) ==
    IF trim(input) = <<>>
    THEN /\ last' = Event("handleSend", input, state, FALSE, <<>>)
         /\ UNCHANGED <<variant, mounted, messages, input, state, calls>>
    ELSE /\ calls < max
         /\ Respond(handleBotResponse(variant, state, input))
         /\ calls' = calls + 1
         /\ input' = <<>>
         /\ UNCHANGED <<variant, mounted>>

\* handleSend, reached from the button and from the Enter key
Send == SendWithin(MaxSends)

\* onClick of the send button (line 245)
HandleSend == Send

\* handleKeyPress (lines 88-90) in a run of at most max accepted submissions
KeyPressWithin(key, max) ==
    IF key = "Enter"
    THEN SendWithin(max)
    ELSE /\ last' = Event("handleKeyPress", input, state, FALSE, <<>>)
         /\ UNCHANGED <<variant, mounted, messages, input, state, calls>>

HandleKeyPress(key) == KeyPressWithin(key, MaxSends)

Next ==
    \/ Greet
    \/ \E value \in Utterances : OnChange(value)
    \/ HandleSend
    \/ \E key \in Keys : HandleKeyPress(key)

Spec == Init /\ [][Next]_vars

-----------------------------------------------------------------------------
(* Longer conversations: the same component with fewer things to say *)

\* the accepted submissions of a conversation are bounded
MaxTurns == 4

\* one utterance with "tax", one with "no" and "tax", one with "no", and one
\* with neither that gives the details
Phrases == {
    Chars("I need tax help"),
    Chars("No TAXES"),
    Chars("no thanks"),
    Chars("hours: 40, rate: 35, state: NY, county: Kings, city: NYC") }

Converse ==
    \/ Greet
    \/ \E value \in Phrases : OnChange(value)
    \/ SendWithin(MaxTurns)
    \/ \E key \in Keys : KeyPressWithin(key, MaxTurns)

Conversation == Init /\ [][Converse]_vars

-----------------------------------------------------------------------------
(* The engine alone: handleBotResponse called in any ChatState *)

\* type ChatState (lines 25-29)
ChatStates == {"idle", "awaiting_tax_request", "awaiting_tax_details", "awaiting_anything_else"}

\* the calls of a run of the engine are bounded
MaxCalls == 2

EngineInit ==
    /\ variant \in Variants
    /\ mounted = TRUE
    /\ messages = <<>>
    /\ input = <<>>
    /\ state \in ChatStates
    /\ calls = 0
    /\ last = Event("render", <<>>, state, FALSE, <<>>)

\* the effect of a call that sets r.state and returns r.reply
Returns(userInput, r) ==
    /\ state' = r.state
    /\ last' = Event("handleBotResponse", userInput, state, TRUE, r.reply)

\* one call handleBotResponse(userInput)
Invoke(userInput) ==
    /\ calls < MaxCalls
    /\ Returns(userInput, handleBotResponse(variant, state, userInput))
    /\ calls' = calls + 1
    /\ UNCHANGED <<variant, mounted, messages, input>>

\* further attempts at the details: a field left out, hours not a number,
\* rate before hours
Attempts == {
    Chars("hours: 40, rate: 35, state: NY, county: Kings"),
    Chars("hours: forty, rate: 35, state: NY, county: Kings, city: NYC"),
    Chars("Rate: 35, Hours: 40, State: NY, County: Kings, City: NYC") }

EngineNext == \E userInput \in Utterances \cup Attempts : Invoke(userInput)

Engine == EngineInit /\ [][EngineNext]_vars

-----------------------------------------------------------------------------
(* Properties *)

StartsWith(s, p) == Len(p) <= Len(s) /\ SubSeq(s, 1, Len(p)) = p

SameLetter(c, d) ==
    c = d \/ \E k \in 1..26 : {c, d} = {LowerCaseLetters[k], UpperCaseLetters[k]}

\* s contains the word w in some letter case
Mentions(s, w) ==
    \E i \in 0..(Len(s) - Len(w)) : \A j \in 1..Len(w) : SameLetter(s[i + j], Chars(w)[j])

Blank(s) == \A i \in 1..Len(s) : s[i] \in WhiteSpace

\* the last handler was a submission that called the engine in state st
Answered(st) == last.op = "handleSend" /\ last.called /\ last.state = st

\* ... and the user's text and the reply are the last two messages
Appended ==
    /\ Len(messages) >= 2
    /\ messages[Len(messages) - 1] = Message("user", last.input)
    /\ messages[Len(messages)] = Message("bot", last.reply)

\* C1: no utterance is processed before the greeting effect has run, and
\* right after the effect the message list is the one bot message "Hello, my
\* name is Jacob. How can I help you?" and the state is awaiting_tax_request.
C1_GreetingFirst ==
    /\ ~mounted => calls = 0 /\ messages = <<>>
    /\ last.op = "useEffect" =>
          /\ messages = <<[sender |-> "bot", text |-> Chars("Hello, my name is Jacob. How can I help you?")]>>
          /\ state = "awaiting_tax_request"
          /\ calls = 0

C1_Witness == last.op = "useEffect" /\ mounted /\ Len(messages) = 1

\* C2: in every state, a submission of an empty or white-space-only text
\* leaves the message list and the conversation state unchanged and does
\* not call handleBotResponse.
C2_BlankIgnored ==
    [][(last'.op = "handleSend" /\ Blank(input))
          => (messages' = messages /\ state' = state /\ calls' = calls /\ ~last'.called)]_vars

C2_Witness ==
    /\ last.op = "handleSend" /\ ~last.called
    /\ last.input # <<>> /\ Blank(last.input)
    /\ state = "awaiting_tax_details"

\* C3: in awaiting_tax_request an utterance that contains "tax" in any
\* letter case, with or without "no", is answered with the reply that starts
\* with "Sure!" and asks for hours, rate, state, county and city, and the
\* next state is awaiting_tax_details.
C3_TaxRequest ==
    (Answered("awaiting_tax_request") /\ Mentions(last.input, "tax")) =>
        /\ StartsWith(last.reply, Chars("Sure!"))
        /\ \A w \in {"hours", "rate", "state", "county", "city"} : includes(last.reply, Chars(w))
        /\ state = "awaiting_tax_details"
        /\ Appended

C3_Witness ==
    /\ Answered("awaiting_tax_request")
    /\ Mentions(last.input, "tax") /\ Mentions(last.input, "no")
    /\ ~includes(last.input, Chars("tax"))
    /\ state = "awaiting_tax_details"

\* C4: in awaiting_tax_details an utterance that matches the details pattern
\* is answered with a reply that reports the city, the county and the state
\* and the gross pay, the taxes and the net pay, and the next state is
\* awaiting_anything_else.
C4_Estimate ==
    (Answered("awaiting_tax_details") /\ match(last.input, regex) # <<>>) =>
        LET m == match(last.input, regex) IN
        /\ includes(last.reply, m[5] \o Chars(", ") \o m[4] \o Chars(" County, ") \o m[3] \o Chars(":"))
        /\ \A label \in {"Gross Pay: $", "Taxes: $", "Net Pay: $"} : includes(last.reply, Chars(label))
        /\ state = "awaiting_anything_else"
        /\ Appended

C4_Witness ==
    /\ Answered("awaiting_tax_details")
    /\ last.input = Chars("hours: 40, rate: 35, state: NY, county: Kings, city: NYC")
    /\ includes(last.reply, Chars("NYC, Kings County, NY"))
    /\ state = "awaiting_anything_else"

\* a captured number whose value is an integer: digits, then possibly a
\* point and zeros
IsInteger(str) ==
    \A i \in 1..Len(str) : \A j \in 1..i : str[j] = "." /\ j < i => str[i] = "0"

\* the integer of such a string
IntegerOf(str) ==
    LET dot == {i \in 1..Len(str) : str[i] = "."}
    IN  NNorm(NFromDigits(IF dot = {} THEN str ELSE SubSeq(str, 1, Min(dot) - 1)))

\* an amount of cents written as dollars with two decimals
Money(cents) ==
    LET ds == NToDigits(cents)
        p  == IF Len(ds) < 3 THEN [i \in 1..(3 - Len(ds)) |-> "0"] \o ds ELSE ds
    IN  SubSeq(p, 1, Len(p) - 2) \o <<".">> \o SubSeq(p, Len(p) - 1, Len(p))

\* the reply reports gross pay, taxes and net pay of 100, 17 and 83 cents
\* for each product unit
ReportsCents(reply, product) ==
    /\ includes(reply, Chars("Gross Pay: $") \o Money(NMulSmall(product, 100)) \o Chars("\n"))
    /\ includes(reply, Chars("Taxes: $") \o Money(NMulSmall(product, 17)) \o Chars("\n"))
    /\ includes(reply, Chars("Net Pay: $") \o Money(NMulSmall(product, 83)) \o Chars("\n"))

IntegerDetails ==
    /\ Answered("awaiting_tax_details")
    /\ match(last.input, regex) # <<>>
    /\ IsInteger(match(last.input, regex)[1])
    /\ IsInteger(match(last.input, regex)[2])

HoursTimesRate ==
    NMul(IntegerOf(match(last.input, regex)[1]), IntegerOf(match(last.input, regex)[2]))

\* the products up to which the amended C5 is stated
MaxExactProduct == NNorm(NFromDigits(Chars("1000000000000")))

InstructionalPrompt ==
    Chars("I can help you calculate taxes. Please type \"please calculate my taxes\" to begin.")

\* C6 as stated: in awaiting_tax_details an utterance that does not match
\* the details pattern gets the prompt that awaiting_tax_request gives to an
\* utterance with neither "tax" nor "no", and the state remains
\* awaiting_tax_details.
C6_Original ==
    (Answered("awaiting_tax_details") /\ match(last.input, regex) = <<>>) =>
        last.reply = InstructionalPrompt /\ state = "awaiting_tax_details"

\* C6 amended: in awaiting_tax_details an utterance that does not match the
\* details pattern gets the fixed retry prompt "Please include your
\* information like so, ..." (the tax-details prompt without its "Sure! "),
\* and the state remains awaiting_tax_details.
C6_Retry ==
    (Answered("awaiting_tax_details") /\ match(last.input, regex) = <<>>) =>
        /\ last.reply = Chars("Please include your information like so, \"hours: 40, rate: 35, state: NY, county: Kings, city: NYC\".")
        /\ Chars("Sure! ") \o last.reply = TaxPrompt
        /\ state = "awaiting_tax_details"
        /\ Appended

C6_Witness ==
    /\ Answered("awaiting_tax_details")
    /\ last.input = Chars("I don't have that info")
    /\ state = "awaiting_tax_details"

\* C7: in awaiting_anything_else an utterance that contains "no", with or
\* without "tax", is answered "Thanks, have a nice day!" and the next state
\* is awaiting_tax_request.
C7_NoResets ==
    (Answered("awaiting_anything_else") /\ Mentions(last.input, "no")) =>
        last.reply = Chars("Thanks, have a nice day!") /\ state = "awaiting_tax_request"

\* C8: in awaiting_tax_request an utterance that contains "no" but not "tax"
\* is answered "Thanks, have a nice day!" and the next state is
\* awaiting_anything_else.
C8_NoInTaxRequest ==
    (Answered("awaiting_tax_request") /\ Mentions(last.input, "no") /\ ~Mentions(last.input, "tax")) =>
        /\ last.reply = Chars("Thanks, have a nice day!")
        /\ state = "awaiting_anything_else"
        /\ Appended

C8_Witness ==
    /\ Answered("awaiting_tax_request")
    /\ Mentions(last.input, "no") /\ ~Mentions(last.input, "tax")
    /\ state = "awaiting_anything_else"

\* C9: in awaiting_tax_request a non-blank utterance that contains neither
\* "tax" nor "no" gets the fixed instructional prompt and the state stays
\* awaiting_tax_request.
C9_NeitherWord ==
    (Answered("awaiting_tax_request") /\ ~Mentions(last.input, "tax") /\ ~Mentions(last.input, "no")) =>
        /\ last.reply = InstructionalPrompt
        /\ state = "awaiting_tax_request"
        /\ Appended

C9_Witness ==
    /\ Answered("awaiting_tax_request")
    /\ ~Mentions(last.input, "tax") /\ ~Mentions(last.input, "no")
    /\ ~Blank(last.input)
    /\ state = "awaiting_tax_request" /\ calls = 2

\* C10: in awaiting_anything_else an utterance that contains "tax" but not
\* "no" gets the tax-details prompt and the next state is
\* awaiting_tax_details.
C10_TaxAgain ==
    (Answered("awaiting_anything_else") /\ Mentions(last.input, "tax") /\ ~Mentions(last.input, "no")) =>
        /\ last.reply = Chars("Sure! Please include your information like so, \"hours: 40, rate: 35, state: NY, county: Kings, city: NYC\".")
        /\ state = "awaiting_tax_details"
        /\ Appended

C10_Witness ==
    /\ Answered("awaiting_anything_else")
    /\ Mentions(last.input, "tax") /\ ~Mentions(last.input, "no")
    /\ state = "awaiting_tax_details"

\* C11: in awaiting_anything_else a non-blank utterance that contains
\* neither "no" nor "tax" is answered "Okay! Let me know if you would like
\* me to calculate taxes again." and the next state is awaiting_tax_request.
C11_OkayResets ==
    (Answered("awaiting_anything_else") /\ ~Mentions(last.input, "no") /\ ~Mentions(last.input, "tax")) =>
        /\ last.reply = Chars("Okay! Let me know if you would like me to calculate taxes again.")
        /\ state = "awaiting_tax_request"
        /\ Appended

C11_Witness ==
    /\ Answered("awaiting_anything_else")
    /\ ~Mentions(last.input, "no") /\ ~Mentions(last.input, "tax")
    /\ ~Blank(last.input)
    /\ state = "awaiting_tax_request"

\* a submission has just been processed
Submitted == last.op = "handleSend" /\ last.called

RetryText ==
    Chars("Please include your information like so, \"hours: 40, rate: 35, state: NY, county: Kings, city: NYC\".")

SureText ==
    Chars("Sure! Please include your information like so, \"hours: 40, rate: 35, state: NY, county: Kings, city: NYC\".")

\* the last k utterances are all u
SameInARow(u, k) ==
    /\ Len(messages) >= 1 + 2 * k
    /\ \A j \in 0..(k - 1) : messages[Len(messages) - 2 * j - 1] = Message("user", u)

\* the bot message before the last k exchanges asked for the details, so
\* the first of them was read in awaiting_tax_details
Prompted(k) == messages[Len(messages) - 2 * k].text \in {SureText, RetryText}

\* the last k replies are all the retry prompt
FailedInARow(k) ==
    \A j \in 0..(k - 1) : messages[Len(messages) - 2 * j] = Message("bot", RetryText)

\* C12: from awaiting_tax_details, the same unmatched utterance submitted any
\* number of times in a row gets the identical retry prompt each time and
\* the state is awaiting_tax_details after each one; there is no attempt
\* limit: a matching utterance after any number of failed attempts gets the
\* estimate.
C12_RetryWithoutLimit ==
    (Submitted /\ last.state = "awaiting_tax_details") =>
        IF match(last.input, regex) = <<>>
        THEN /\ last.reply = RetryText
             /\ state = "awaiting_tax_details"
             /\ \A k \in 1..calls :
                   (SameInARow(last.input, k) /\ Prompted(k)) => FailedInARow(k)
        ELSE /\ StartsWith(last.reply, Chars("Estimated taxes for "))
             /\ state = "awaiting_anything_else"

\* two failed attempts with the same utterance in a row, then the estimate
C12_Witness ==
    /\ Submitted /\ Len(messages) = 9
    /\ messages[4] = messages[6]
    /\ messages[5].text = RetryText /\ messages[7].text = RetryText
    /\ match(messages[4].text, regex) = <<>>
    /\ match(messages[8].text, regex) # <<>>
    /\ StartsWith(messages[9].text, Chars("Estimated taxes for "))
    /\ state = "awaiting_anything_else"

IsPrefix(a, b) == Len(a) <= Len(b) /\ SubSeq(b, 1, Len(a)) = a

GreetingMessage ==
    [sender |-> "bot", text |-> Chars("Hello, my name is Jacob. How can I help you?")]

\* C13: after the greeting effect the message list is append-only: in every
\* step (submission, key press or input edit) the list before is a prefix of
\* the list after, the first message is the bot greeting, and the greeting
\* occurs exactly once.
C13_AppendOnly ==
    /\ [](mounted =>
            /\ messages # <<>>
            /\ messages[1] = GreetingMessage
            /\ Cardinality({i \in 1..Len(messages) : messages[i] = GreetingMessage}) = 1)
    /\ [][mounted => IsPrefix(messages, messages')]_vars

\* four submissions and then an input edit
C13_Witness ==
    /\ Len(messages) = 9
    /\ messages[1] = GreetingMessage
    /\ last.op = "onChange" /\ input # <<>>

\* what one call of the engine must leave: the call counted, made with the
\* present state and the present text of the box, and that text and the
\* reply of the call appended
OneCall ==
    /\ calls' = calls + 1
    /\ last'.called /\ last'.state = state /\ last'.input = input
    /\ messages' = messages \o <<[sender |-> "user", text |-> input],
                                 [sender |-> "bot", text |-> last'.reply]>>

\* C14: every accepted (non-blank) submission calls the engine exactly once,
\* with the state the previous submission left, and appends exactly two
\* messages, the user's utterance and then the bot's reply to it; so after n
\* accepted submissions the list has 1 + 2n messages whose senders alternate
\* bot, user, bot, ..., the last one being a bot message.
C14_OneCallTwoMessages ==
    /\ [][(last'.op = "handleSend" /\ ~Blank(input))
            => OneCall]_vars
    /\ [][calls' # calls => (last'.op = "handleSend" /\ ~Blank(input))]_vars
    /\ [](mounted =>
            /\ Len(messages) = 1 + 2 * calls
            /\ \A i \in 1..Len(messages) :
                  messages[i].sender = IF i % 2 = 1 THEN "bot" ELSE "user")

C14_Witness ==
    /\ Submitted /\ calls = 4
    /\ Len(messages) = 9
    /\ messages[8] = [sender |-> "user", text |-> last.input]
    /\ messages[9] = [sender |-> "bot", text |-> last.reply]

LabelAt(s, i, w) ==
    /\ i + Len(w) - 1 <= Len(s)
    /\ \A j \in 1..Len(w) : SameLetter(s[i + j - 1], Chars(w)[j])

HasLabel(s, w) == \E i \in 1..Len(s) : LabelAt(s, i, w)

\* from position i of s there is white space, if any, and then a digit
NumberFrom(s, i) ==
    \E k \in i..Len(s) :
        /\ s[k] \in {"0", "1", "2", "3", "4", "5", "6", "7", "8", "9"}
        /\ \A j \in i..(k - 1) : s[j] \in WhiteSpace

Labels == <<"hours:", "rate:", "state:", "county:", "city:">>

RECURSIVE LabelsFrom(_, _, _)
\* the labels n.. stand in s in their order from position i on, each after
\* the one before, and hours and rate are followed by a number
LabelsFrom(s, n, i) ==
    \/ n > Len(Labels)
    \/ \E p \in i..Len(s) :
          /\ LabelAt(s, p, Labels[n])
          /\ n <= 2 => NumberFrom(s, p + Len(Labels[n]))
          /\ LabelsFrom(s, n + 1, p + Len(Labels[n]))

InOrder(s) == LabelsFrom(s, 1, 1)

OmitsField(s) == \E n \in 1..Len(Labels) : ~HasLabel(s, Labels[n])

\* C16: in awaiting_tax_details an utterance is treated as a match only if
\* it has the labels hours, rate, state, county, city in that order, in any
\* letter case, with a number after hours and after rate; an utterance that
\* omits a field, or has all five in another order, gets the retry prompt
\* and leaves the state awaiting_tax_details.
C16_FieldsInOrder ==
    (last.op = "handleBotResponse" /\ last.state = "awaiting_tax_details") =>
        /\ (state # "awaiting_tax_details" \/ last.reply # RetryText) => InOrder(last.input)
        /\ (OmitsField(last.input) \/ ~InOrder(last.input)) =>
              last.reply = RetryText /\ state = "awaiting_tax_details"

\* all five fields, state before city before county
C16_Witness ==
    /\ last.op = "handleBotResponse" /\ last.state = "awaiting_tax_details"
    /\ ~OmitsField(last.input) /\ ~InOrder(last.input)
    /\ HasLabel(last.input, "hours: 40, rate: 35, state: NY, city: NYC")
    /\ last.reply = RetryText /\ state = "awaiting_tax_details"

ThanksText == Chars("Thanks, have a nice day!")

\* in the second version the state after a reply is awaiting_anything_else
\* exactly when the reply is the thanks or an estimate, so this says: some
\* utterance with "no" was processed in awaiting_anything_else
SaidNoThere ==
    \E i \in 2..calls :
        /\ Mentions(messages[2 * i].text, "no")
        /\ messages[2 * i + 1].text = ThanksText
        /\ \/ messages[2 * i - 1].text = ThanksText
           \/ StartsWith(messages[2 * i - 1].text, Chars("Estimated taxes for "))

\* C17 as stated: in the second version, once the user has said "no" in
\* awaiting_anything_else, no later utterances make the conversation leave
\* awaiting_anything_else.
C17_DeadEnd ==
    (variant = 2 /\ mounted /\ SaidNoThere) => state = "awaiting_anything_else"

\* C17 amended: in the second version an utterance with "no" processed in
\* awaiting_anything_else leaves the state awaiting_anything_else, but the
\* state is no dead end: also after a "no" there, an utterance without "no"
\* leaves it, to awaiting_tax_details when it contains "tax" and to
\* awaiting_tax_request otherwise.
C17_NoLoopsOnly ==
    (variant = 2 /\ Answered("awaiting_anything_else")) =>
        state = IF Mentions(last.input, "no") THEN "awaiting_anything_else"
                ELSE IF Mentions(last.input, "tax") THEN "awaiting_tax_details"
                ELSE "awaiting_tax_request"

\* "no" was said there, and a later utterance with "tax" has left the state
C17_Witness ==
    /\ variant = 2 /\ SaidNoThere
    /\ Answered("awaiting_anything_else")
    /\ Mentions(last.input, "tax") /\ ~Mentions(last.input, "no")
    /\ state = "awaiting_tax_details"

\* the blank at i is one of those that begin a line of s after the first
Indents(s, i) ==
    /\ s[i] = " "
    /\ \E j \in 1..(i - 1) : s[j] = "\n" /\ \A k \in (j + 1)..i : s[k] = " "

\* s[lo..hi] without the blanks that begin the lines of s
RECURSIVE Flush(_, _, _)
Flush(s, lo, hi) ==
    IF lo > hi THEN <<>>
    ELSE IF lo = hi THEN (IF Indents(s, lo) THEN <<>> ELSE <<s[lo]>>)
    ELSE Flush(s, lo, (lo + hi) \div 2) \o Flush(s, (lo + hi) \div 2 + 1, hi)

Unindented(s) == Flush(s, 1, Len(s))

IsEstimate(reply) == StartsWith(reply, Chars("Estimated taxes for "))

\* the step of two versions from one state on one utterance: the same next
\* state except for "no" in awaiting_anything_else, the same reply when
\* neither is an estimate, and estimates that differ in the indentation of
\* their lines at most
Alike(v, w, st, userInput, r, q) ==
    /\ IF st = "awaiting_anything_else" /\ Mentions(userInput, "no")
       THEN /\ r.state = (IF v = 2 THEN "awaiting_anything_else" ELSE "awaiting_tax_request")
            /\ q.state = (IF w = 2 THEN "awaiting_anything_else" ELSE "awaiting_tax_request")
       ELSE r.state = q.state
    /\ IsEstimate(r.reply) <=> IsEstimate(q.reply)
    /\ IF IsEstimate(r.reply)
       THEN Unindented(r.reply) = Unindented(q.reply)
       ELSE r.reply = q.reply
    /\ {v, w} = {1, 3} => r = q

C19_StateFrame ==
    [][ /\ state' # state =>
              \/ ~mounted /\ mounted'
              \/ calls' = calls + 1 /\ last'.op = "handleSend" /\ last'.called
        /\ last'.op = "onChange" =>
              /\ input' = last'.input
              /\ UNCHANGED <<variant, mounted, messages, state, calls>> ]_vars

\* a text has been typed in the middle of a conversation, which is where it
\* was
C19_Witness ==
    /\ last.op = "onChange" /\ last.input # <<>> /\ input = last.input
    /\ state = "awaiting_tax_details" /\ last.state = state
    /\ Len(messages) = 3

Awaiting == {"awaiting_tax_request", "awaiting_tax_details", "awaiting_anything_else"}

\* C20: once the greeting effect has initialized the conversation, the state
\* is one of awaiting_tax_request, awaiting_tax_details and
\* awaiting_anything_else and never idle, so every accepted submission is
\* processed in one of these three states and not by the default branch.
C20_NeverIdleAgain ==
    /\ mounted => state \in Awaiting
    /\ ~mounted => (state = "idle" /\ calls = 0)
    /\ Submitted => (last.state \in Awaiting /\ last.state # "idle")

\* a second submission processed in awaiting_anything_else, the state the
\* default branch would set, with its own branch
C20_Witness ==
    /\ Submitted /\ calls = 2
    /\ last.state = "awaiting_anything_else"
    /\ ~Mentions(last.input, "no") /\ ~Mentions(last.input, "tax")
    /\ state = "awaiting_tax_request"

\* the bot message at i reports an estimate
EstimateAt(i) ==
    messages[i].sender = "bot" /\ IsEstimate(messages[i].text)

\* a bot message before i is the prompt for the details
PromptedBefore(i) ==
    \E j \in 1..(i - 1) : messages[j] = Message("bot", SureText)

\* C21: a tax estimate is produced on request only: a step enters
\* awaiting_tax_details only by processing an utterance that contains "tax";
\* every reply that reports an estimate is the reply to an utterance
\* processed in awaiting_tax_details; and every bot message that reports an
\* estimate has a "Sure! Please include ..." bot prompt before it in the
\* message list.
C21_OnRequest ==
    /\ [][ (state' = "awaiting_tax_details" /\ state # "awaiting_tax_details") =>
               /\ last'.op = "handleSend" /\ last'.called
               /\ last'.input = input
               /\ Mentions(input, "tax") ]_vars
    /\ []((Submitted /\ IsEstimate(last.reply)) =>
               (last.state = "awaiting_tax_details" /\ Appended))
    /\ [](\A i \in 1..Len(messages) : EstimateAt(i) => PromptedBefore(i))

\* a second estimate in one conversation, asked for twice
C21_Witness ==
    /\ Submitted /\ IsEstimate(last.reply)
    /\ last.state = "awaiting_tax_details"
    /\ Len(messages) = 9
    /\ EstimateAt(5) /\ EstimateAt(9)
    /\ messages[3] = Message("bot", SureText)
    /\ messages[7] = Message("bot", SureText)
    /\ Mentions(messages[2].text, "tax") /\ Mentions(messages[6].text, "tax")

====
